---- MODULE Spec2Model ----
(***************************************************************************)
(* Model of the MyPlugin audio plugin (Source/PluginProcessor.{h,cpp},     *)
(* Source/PluginEditor.{h,cpp}): the processor's host-driven lifecycle     *)
(* (prepareToPlay / releaseResources / processBlock), its state chunk      *)
(* callbacks, and the editors the host creates with createEditor.          *)
(*                                                                         *)
(* Samples are IEEE-754 floats abstracted to the values "0.0", "1.0" and   *)
(* "NaN" (a stale output channel may hold any bit pattern, NaN included).  *)
(***************************************************************************)
EXTENDS Integers, Sequences, FiniteSets, TLC

\* ------------------------------------------------------------------ bounds
\* longest host buffer, in samples per channel
MaxSamples == 2
\* longest state chunk the host hands to setStateInformation, in bytes
MaxBlobLen == 2
\* number of editors the host creates over the life of one processor
MaxEditors == 3

\* ------------------------------------------------- program constants, types
\* the widest bus declared by the constructor: AudioChannelSet::stereo()
StereoChannels == 2

\* the samples a host buffer holds on entry: a finite non-zero value, or NaN;
\* "0.0" is what clear() and a zero gain write
SampleValues == {"1.0", "NaN"}
SampleRates == {44100, 48000}
BlockSizes == {256, 512}
ByteValues == {0, 255}

\* juce::dsp::ProcessSpec before any prepare (Gain's sampleRate member is 0)
NoSpec == [sampleRate |-> 0, maximumBlockSize |-> 0, numChannels |-> 0]

\* the gain of a default-constructed juce::dsp::Gain<float>: its
\* SmoothedValue<float, Linear> member starts at 0 (linear), and no line of the
\* plugin ever calls setGainLinear / setGainDecibels
DefaultGain == "0.0"

\* no host buffer is bound (outside processBlock and its just-returned state)
NoBuffer == [numSamples |-> 0, data |-> << >>]

Max(a, b) == IF a >= b THEN a ELSE b

\* static_cast<juce::uint32>(int): value-preserving on the non-negative ints,
\* the only ones a host passes as a block size or a bus reports as a channel
\* count (a negative int would wrap to x + 2^32, outside TLC's integers)
ToUint32(x) == CASE x >= 0 -> x

\* IEEE-754 single precision product on the abstract sample values
FMul(a, g) ==
    IF a = "NaN" \/ g = "NaN" THEN "NaN"
    ELSE IF a = "0.0" \/ g = "0.0" THEN "0.0"
    ELSE "1.0"

\* the buffer a host passes: n samples for each channel of d
Buffer(n, d) == [numSamples |-> n, data |-> d]

\* state chunks a host can pass to setStateInformation
Blobs == UNION { [1..n -> ByteValues] : n \in 0..MaxBlobLen }

VARIABLES
    processorAlive,          \* the MyPluginAudioProcessor object exists
    totalNumInputChannels,   \* getTotalNumInputChannels()
    totalNumOutputChannels,  \* getTotalNumOutputChannels()
    processorChain,          \* [gain, spec]: the chain's single Gain stage
    lifecycle,               \* "Unprepared" / "Prepared": last of prepare/release
    pc,                      \* position of the audio callback inside processBlock
    buffer,                  \* the host's AudioBuffer<float>, written in place
    bufferIn,                \* history: the buffer as passed to processBlock
    fpMode,                  \* the audio thread's flush-denormals mode (FTZ/DAZ)
    noDenormals,             \* ScopedNoDenormals: the mode it saved
    entryMode,               \* history: fpMode when processBlock was entered
    lifecycleAtEntry,        \* history: lifecycle when processBlock was entered
    chainRan,                \* history: processorChain.process ran in this block
    fault,                   \* a callback ended in a fatal failure
    lastCall,                \* history: the last callback the host invoked
    relStreak,               \* history: consecutive releaseResources calls (0..2)
    prepares,                \* history: prepareToPlay calls so far (0..2)
    lastPrepare,             \* history: arguments of the latest prepareToPlay
    destData,                \* the MemoryBlock of the latest getStateInformation
    gainAtSave,              \* history: the gain when destData was saved
    lastData,                \* history: the bytes of the latest setStateInformation
    editors,                 \* editor id -> "none" / "alive" / "deleted"
    lastAccess,              \* objects the latest editor callback touched
    danglingAccess           \* an editor callback touched a destroyed processor

audioVars == << pc, buffer, bufferIn, fpMode, noDenormals, entryMode,
                lifecycleAtEntry, chainRan >>
procVars == << totalNumInputChannels, totalNumOutputChannels, processorChain,
               lifecycle, lastPrepare >>
stateVars == << destData, gainAtSave, lastData >>
editorVars == << processorAlive, editors, lastAccess, danglingAccess >>
vars == << audioVars, procVars, stateVars, editorVars, fault, lastCall, relStreak,
          prepares >>

\* MyPluginAudioProcessor::MyPluginAudioProcessor(): stereo in, stereo out,
\* a default-constructed chain
Init ==
    /\ processorAlive = TRUE
    /\ totalNumInputChannels = StereoChannels
    /\ totalNumOutputChannels = StereoChannels
    /\ processorChain = [gain |-> DefaultGain, spec |-> NoSpec]
    /\ lifecycle = "Unprepared"
    /\ pc = "idle"
    /\ buffer = NoBuffer
    /\ bufferIn = NoBuffer
    /\ fpMode \in BOOLEAN
    /\ noDenormals = FALSE
    /\ entryMode = FALSE
    /\ lifecycleAtEntry = "Unprepared"
    /\ chainRan = FALSE
    /\ fault = FALSE
    /\ lastCall = "none"
    /\ relStreak = 0
    /\ prepares = 0
    /\ lastPrepare = [sampleRate |-> 0, samplesPerBlock |-> 0, outputChannels |-> 0]
    /\ destData = << >>
    /\ gainAtSave = DefaultGain
    /\ lastData = << >>
    /\ editors = [e \in 1..MaxEditors |-> "none"]
    /\ lastAccess = {}
    /\ danglingAccess = FALSE

\* a callback other than processBlock: the previous block, its buffer and the
\* history kept about it are gone
DropBuffer ==
    /\ buffer' = NoBuffer
    /\ bufferIn' = NoBuffer
    /\ chainRan' = FALSE
    /\ entryMode' = FALSE
    /\ lifecycleAtEntry' = "Unprepared"
    /\ UNCHANGED << pc, fpMode, noDenormals >>

\* ---------------------------------------------------------- audio processor

\* the host renegotiates the bus layout (each bus mono, stereo or disabled)
setBusesLayout(i, o) ==
    /\ processorAlive /\ pc = "idle"
    /\ totalNumInputChannels' = i
    /\ totalNumOutputChannels' = o
    /\ lastCall' = "setBusesLayout"
    /\ relStreak' = 0
    /\ DropBuffer
    /\ UNCHANGED << processorChain, lifecycle, lastPrepare,
                    stateVars, editorVars, fault,
                    prepares >>

\* prepareToPlay with the channel count taken from the input buses
prepareToPlay_inputChannels(sampleRate, samplesPerBlock) ==
    /\ processorAlive /\ pc = "idle"
    /\ processorChain' = [processorChain EXCEPT !.spec =
            [sampleRate |-> sampleRate,
             maximumBlockSize |-> ToUint32(samplesPerBlock),
             numChannels |-> ToUint32(totalNumInputChannels)]]
    /\ lifecycle' = "Prepared"
    /\ prepares' = IF prepares < 2 THEN prepares + 1 ELSE 2
    /\ lastPrepare' = [sampleRate |-> sampleRate, samplesPerBlock |-> samplesPerBlock,
                       outputChannels |-> totalNumOutputChannels]
    /\ lastCall' = "prepareToPlay"
    /\ relStreak' = 0
    /\ DropBuffer
    /\ UNCHANGED << totalNumInputChannels, totalNumOutputChannels,
                    stateVars, editorVars, fault >>

\* MyPluginAudioProcessor::prepareToPlay: builds the ProcessSpec and hands it
\* to processorChain.prepare, which keeps the gain value (Gain::prepare resets
\* the smoother to its target, the unchanged gain)
prepareToPlay(sampleRate, samplesPerBlock) ==
    /\ processorAlive /\ pc = "idle"
    /\ processorChain' = [processorChain EXCEPT !.spec =
            [sampleRate |-> sampleRate,
             maximumBlockSize |-> ToUint32(samplesPerBlock),
             numChannels |-> ToUint32(totalNumOutputChannels)]]
    /\ lifecycle' = "Prepared"
    /\ prepares' = IF prepares < 2 THEN prepares + 1 ELSE 2
    /\ lastPrepare' = [sampleRate |-> sampleRate, samplesPerBlock |-> samplesPerBlock,
                       outputChannels |-> totalNumOutputChannels]
    /\ lastCall' = "prepareToPlay"
    /\ relStreak' = 0
    /\ DropBuffer
    /\ UNCHANGED << totalNumInputChannels, totalNumOutputChannels,
                    stateVars, editorVars, fault >>

\* releaseResources that insists on a prior prepareToPlay
releaseResources_needsPrepared ==
    /\ processorAlive /\ pc = "idle"
    /\ fault' = (fault \/ lifecycle # "Prepared")
    /\ lifecycle' = "Unprepared"
    /\ lastCall' = "releaseResources"
    /\ relStreak' = IF relStreak < 2 THEN relStreak + 1 ELSE 2
    /\ DropBuffer
    /\ UNCHANGED << totalNumInputChannels, totalNumOutputChannels, processorChain,
                    lastPrepare, stateVars, editorVars,
                    prepares >>

\* MyPluginAudioProcessor::releaseResources: an empty body; the host is now
\* in the Unprepared phase of the lifecycle, the chain keeps its ProcessSpec
releaseResources ==
    /\ processorAlive /\ pc = "idle"
    /\ lifecycle' = "Unprepared"
    /\ lastCall' = "releaseResources"
    /\ relStreak' = IF relStreak < 2 THEN relStreak + 1 ELSE 2
    /\ DropBuffer
    /\ UNCHANGED << totalNumInputChannels, totalNumOutputChannels, processorChain,
                    lastPrepare, stateVars, editorVars, fault,
                    prepares >>

\* processBlock, entry: the host calls with buffer b on a thread whose
\* flush mode is m; ScopedNoDenormals saves m and enables flushing; the channel
\* counts are read.  There is no check of the lifecycle.
processBlockEnter(b, m) ==
    /\ processorAlive /\ pc = "idle"
    /\ buffer' = b
    /\ bufferIn' = b
    /\ entryMode' = m
    /\ noDenormals' = m
    /\ fpMode' = TRUE
    /\ lifecycleAtEntry' = lifecycle
    /\ chainRan' = FALSE
    /\ pc' = "clear"
    /\ lastCall' = "processBlock"
    /\ relStreak' = 0
    /\ UNCHANGED << procVars, stateVars, editorVars, fault,
                    prepares >>

\* buffer.clear(i, 0, numSamples) that shrinks the channel to no samples
clearChannel_shrinks(buf, ch) ==
    [buf EXCEPT !.data[ch] = << >>]

\* buffer.clear(i, 0, buffer.getNumSamples()): zeroes channel ch (1-based here)
clearChannel(buf, ch) ==
    [buf EXCEPT !.data[ch] = [s \in 1..buf.numSamples |-> "0.0"]]

\* the clearing loop leaving every channel as it was
clearUnused_skips(buf, i, o) == buf

\* for (i = totalNumInputChannels; i < totalNumOutputChannels; ++i) clear(i)
RECURSIVE clearUnused(_, _, _)
clearUnused(buf, i, o) ==
    IF i < o THEN clearUnused(clearChannel(buf, i + 1), i + 1, o) ELSE buf

\* processBlock, lines 34-36
processBlockClear ==
    /\ pc = "clear"
    /\ buffer' = clearUnused(buffer, totalNumInputChannels, totalNumOutputChannels)
    /\ pc' = "process"
    /\ UNCHANGED << bufferIn, fpMode, noDenormals, entryMode, lifecycleAtEntry,
                    chainRan, procVars, stateVars, editorVars, fault, lastCall,
                    relStreak,
                    prepares >>

\* processorChain.process(context): the Gain stage multiplies every sample of
\* every channel of the block by the gain, replacing it in place
chainProcess(buf, gain) ==
    [buf EXCEPT !.data = [ch \in 1..Len(buf.data) |->
        [s \in 1..buf.numSamples |-> FMul(buf.data[ch][s], gain)]]]

\* processBlock, lines 38-41
processBlockProcess ==
    /\ pc = "process"
    /\ buffer' = chainProcess(buffer, processorChain.gain)
    /\ chainRan' = TRUE
    /\ pc' = "return"
    /\ UNCHANGED << bufferIn, fpMode, noDenormals, entryMode, lifecycleAtEntry,
                    procVars, stateVars, editorVars, fault, lastCall, relStreak,
                    prepares >>

\* the end of processBlock switching flushing off instead of restoring it
processBlockReturn_disables ==
    /\ pc = "return"
    /\ fpMode' = FALSE
    /\ pc' = "idle"
    /\ buffer' = NoBuffer
    /\ bufferIn' = NoBuffer
    /\ noDenormals' = FALSE
    /\ UNCHANGED << entryMode, lifecycleAtEntry,
                    chainRan, procVars, stateVars, editorVars, fault, lastCall,
                    relStreak,
                    prepares >>

\* processBlock, line 42: ~ScopedNoDenormals restores the saved mode and the
\* callback returns; the processor keeps no reference to the host's buffer
processBlockReturn ==
    /\ pc = "return"
    /\ fpMode' = noDenormals
    /\ pc' = "idle"
    /\ buffer' = NoBuffer
    /\ bufferIn' = NoBuffer
    /\ noDenormals' = FALSE
    /\ UNCHANGED << entryMode, lifecycleAtEntry,
                    chainRan, procVars, stateVars, editorVars, fault, lastCall,
                    relStreak,
                    prepares >>

\* ------------------------------------------------------------- state chunks

\* MyPluginAudioProcessor::getStateInformation(destData): ignoreUnused; the
\* empty MemoryBlock the host passes comes back empty
getStateInformation ==
    /\ processorAlive /\ pc = "idle"
    /\ destData' = << >>
    /\ gainAtSave' = processorChain.gain
    /\ lastCall' = "getStateInformation"
    /\ relStreak' = 0
    /\ DropBuffer
    /\ UNCHANGED << procVars, lastData, editorVars, fault, prepares >>

\* setStateInformation reading the gain from the first byte of the chunk
setStateInformation_parses(data, call) ==
    /\ processorAlive /\ pc = "idle"
    /\ processorChain' = [processorChain EXCEPT !.gain =
            IF Len(data) > 0 /\ data[1] = 0 THEN "0.0" ELSE "1.0"]
    /\ lastData' = data
    /\ lastCall' = call
    /\ relStreak' = 0
    /\ DropBuffer
    /\ UNCHANGED << totalNumInputChannels, totalNumOutputChannels, lifecycle,
                    lastPrepare, destData, gainAtSave, editorVars, fault,
                    prepares >>

\* setStateInformation resetting the gain to unity, whatever the chunk holds
setStateInformation_unity(data, call) ==
    /\ processorAlive /\ pc = "idle"
    /\ processorChain' = [processorChain EXCEPT !.gain = "1.0"]
    /\ lastData' = data
    /\ lastCall' = call
    /\ relStreak' = 0
    /\ DropBuffer
    /\ UNCHANGED << totalNumInputChannels, totalNumOutputChannels, lifecycle,
                    lastPrepare, destData, gainAtSave, editorVars, fault,
                    prepares >>

\* MyPluginAudioProcessor::setStateInformation(data, sizeInBytes): ignoreUnused
setStateInformation(data, call) ==
    /\ processorAlive /\ pc = "idle"
    /\ lastData' = data
    /\ lastCall' = call
    /\ relStreak' = 0
    /\ DropBuffer
    /\ UNCHANGED << procVars, destData, gainAtSave, editorVars, fault,
                    prepares >>

\* ------------------------------------------------------------------ editors

\* paint drawing a label it reads from the processor
paint_readsProcessor == {"graphics", "lookAndFeel", "localBounds", "processorRef"}

\* MyPluginAudioProcessorEditor::paint: the objects it touches
paint == {"graphics", "lookAndFeel", "localBounds"}

\* MyPluginAudioProcessorEditor::resized: an empty body
resized == {}

\* an editor callback touching the objects in `objects`
editorCallback(e, objects, call) ==
    /\ editors[e] = "alive"
    /\ lastAccess' = objects
    /\ danglingAccess' = (danglingAccess \/ ("processorRef" \in objects /\ ~processorAlive))
    /\ lastCall' = call
    /\ UNCHANGED << processorAlive, editors, audioVars, procVars, stateVars, fault,
                    relStreak,
                    prepares >>

\* MyPluginAudioProcessor::createEditor and the editor's constructor: binds
\* processorRef to the live processor, setSize(400, 300) runs resized()
createEditor(e) ==
    /\ processorAlive
    /\ editors[e] = "none"
    /\ editors' = [editors EXCEPT ![e] = "alive"]
    /\ lastAccess' = {"processorRef"} \cup resized
    /\ lastCall' = "createEditor"
    /\ UNCHANGED << processorAlive, danglingAccess, audioVars, procVars, stateVars,
                    fault, relStreak,
                    prepares >>

\* the host deletes an editor it owns
deleteEditor(e) ==
    /\ editors[e] = "alive"
    /\ editors' = [editors EXCEPT ![e] = "deleted"]
    /\ lastAccess' = {}
    /\ lastCall' = "deleteEditor"
    /\ UNCHANGED << processorAlive, danglingAccess, audioVars, procVars, stateVars,
                    fault, relStreak,
                    prepares >>

\* the host deletes the processor (never inside an audio callback)
deleteProcessor ==
    /\ processorAlive /\ pc = "idle"
    /\ processorAlive' = FALSE
    /\ lastAccess' = {}
    /\ lastCall' = "deleteProcessor"
    /\ UNCHANGED << editors, danglingAccess, audioVars, procVars, stateVars,
                    fault, relStreak,
                    prepares >>

\* ------------------------------------------------------------ specifications

\* the audio side: lifecycle, bus layout and processBlock
Next ==
    \/ \E i \in 0..StereoChannels, o \in 0..StereoChannels : setBusesLayout(i, o)
    \/ \E sr \in SampleRates, n \in BlockSizes : prepareToPlay(sr, n)
    \/ releaseResources
    \/ \E n \in 0..MaxSamples, m \in BOOLEAN :
          \E d \in [1..Max(totalNumInputChannels, totalNumOutputChannels)
                        -> [1..n -> SampleValues]] :
             processBlockEnter(Buffer(n, d), m)
    \/ processBlockClear
    \/ processBlockProcess
    \/ processBlockReturn

Spec == Init /\ [][Next]_vars

\* the state chunk callbacks, on a processor the host also prepares and releases
NextState ==
    \/ \E i \in 0..StereoChannels, o \in 0..StereoChannels : setBusesLayout(i, o)
    \/ \E sr \in SampleRates, n \in BlockSizes : prepareToPlay(sr, n)
    \/ releaseResources
    \/ getStateInformation
    \/ \E d \in Blobs : setStateInformation(d, "setStateInformation")
    \/ lastCall = "getStateInformation" /\ setStateInformation(destData, "restore")

SpecState == Init /\ [][NextState]_vars

\* editors and the processor, created and destroyed in any order
NextEditor ==
    \/ \E e \in 1..MaxEditors : createEditor(e)
    \/ \E e \in 1..MaxEditors : editorCallback(e, paint, "paint")
    \/ \E e \in 1..MaxEditors : editorCallback(e, resized, "resized")
    \/ \E e \in 1..MaxEditors : deleteEditor(e)
    \/ deleteProcessor

SpecEditor == Init /\ [][NextEditor]_vars

\* --------------------------------------------------------------- properties

\* every variable but the history of consecutive releaseResources calls
AllButStreak == << audioVars, procVars, stateVars, editorVars, fault, lastCall, prepares >>

\* the two buffers have the same channels and the same samples per channel
SameShape(a, b) ==
    /\ a.numSamples = b.numSamples
    /\ Len(a.data) = Len(b.data)
    /\ \A ch \in 1..Len(a.data) : Len(a.data[ch]) = Len(b.data[ch])

\* C1: when there are more output than input channels, every sample of every
\* channel at index inputChannels..outputChannels-1 is exactly zero once the
\* clearing loop has run, and still is when the chain has processed the block.
C1_UnusedOutputsZero ==
    pc \in {"process", "return"} =>
        \A ch \in (totalNumInputChannels + 1)..totalNumOutputChannels :
            \A s \in 1..buffer.numSamples : buffer.data[ch][s] = "0.0"

\* a block with a stale NaN in an unused output channel has been processed
C1_Witness ==
    /\ pc = "return"
    /\ totalNumInputChannels < totalNumOutputChannels
    /\ bufferIn.numSamples = MaxSamples
    /\ \A s \in 1..MaxSamples : bufferIn.data[totalNumOutputChannels][s] = "NaN"

\* C2: after prepareToPlay, processBlock with the gain nobody ever set leaves
\* every sample of every input channel as the host passed it.
C2_DefaultGainPassesThrough ==
    (pc = "return" /\ lifecycleAtEntry = "Prepared") =>
        \A ch \in 1..totalNumInputChannels : buffer.data[ch] = bufferIn.data[ch]

\* C3: a processBlock call made while Unprepared (before any prepareToPlay, or
\* after releaseResources) ends in a fatal failure and does not run the chain.
C3_UnpreparedBlockFails ==
    (lastCall = "processBlock" /\ pc \in {"return", "idle"}
        /\ lifecycleAtEntry = "Unprepared") => (fault /\ ~chainRan)

\* C4: releaseResources never fails, prepared or not, and a releaseResources
\* that follows a releaseResources changes nothing.
C4_ReleaseIdempotent ==
    [][ lastCall' = "releaseResources" =>
            /\ ~fault'
            /\ lastCall = "releaseResources" => AllButStreak' = AllButStreak ]_vars

\* releaseResources ran twice in a row on a processor that was never prepared
C4_Witness ==
    /\ lastCall = "releaseResources"
    /\ relStreak = 2
    /\ prepares = 0
    /\ ~fault

\* C5: loading the chunk getStateInformation has just saved leaves the gain of
\* the chain, the processor's only parameter value, as it was at the save.
C5_StateRoundTrip ==
    lastCall = "restore" => processorChain.gain = gainAtSave

\* a saved chunk has been loaded back into a prepared processor
C5_Witness ==
    /\ lastCall = "restore"
    /\ lastData = destData
    /\ lifecycle = "Prepared"

\* C6: setStateInformation with any byte sequence does not fail and leaves the
\* gain at its default value.
C6_GarbageGivesDefaults ==
    lastCall = "setStateInformation" => (~fault /\ processorChain.gain = DefaultGain)

\* setStateInformation has been given a non-empty chunk of garbage
C6_Witness ==
    /\ lastCall = "setStateInformation"
    /\ Len(lastData) = MaxBlobLen
    /\ lastData[1] = 255

\* C7: once prepareToPlay has run, the chain holds the format of the latest
\* call: its sample rate, its block size, and the output channel count the
\* processor had at that call.
C7_ChainHasLatestFormat ==
    prepares > 0 =>
        processorChain.spec = [sampleRate |-> lastPrepare.sampleRate,
                               maximumBlockSize |-> lastPrepare.samplesPerBlock,
                               numChannels |-> lastPrepare.outputChannels]

\* prepareToPlay has run again, with mono buses of which the input was
\* widened to stereo afterwards
C7_Witness ==
    /\ prepares = 2
    /\ processorChain.spec.sampleRate = 48000
    /\ processorChain.spec.maximumBlockSize = 256
    /\ lastPrepare.outputChannels = 1
    /\ totalNumInputChannels = 2

\* C8: throughout processBlock the host's buffer keeps the channel count and
\* the samples per channel it was passed with.
C8_BufferShapeKept == SameShape(buffer, bufferIn)

\* a prepared processor has rewritten the samples of a full stereo block
C8_Witness ==
    /\ pc = "return"
    /\ lifecycleAtEntry = "Prepared"
    /\ Len(buffer.data) = StereoChannels
    /\ totalNumInputChannels < totalNumOutputChannels
    /\ buffer.numSamples = MaxSamples
    /\ buffer # bufferIn

\* C9: flushing of denormals is on from before the clearing loop until the
\* chain has finished, and once processBlock has returned the thread's mode is
\* the one it had on entry.
C9_DenormalsScoped ==
    /\ pc \in {"clear", "process", "return"} => fpMode
    /\ (pc = "idle" /\ lastCall = "processBlock") => fpMode = entryMode

\* a block entered with flushing off has returned
C9_Witness ==
    /\ pc = "idle"
    /\ lastCall = "processBlock"
    /\ chainRan
    /\ ~entryMode

\* C10: no paint or resized of an editor touches a processor that has been
\* destroyed, in whatever order the host creates and destroys them.
C10_NoDanglingProcessorAccess ==
    /\ ~danglingAccess
    /\ ~processorAlive => "processorRef" \notin lastAccess

\* an editor that outlived the processor has been painted
C10_Witness ==
    /\ ~processorAlive
    /\ lastCall = "paint"
    /\ \E e \in 1..MaxEditors : editors[e] = "alive"
    /\ \E e \in 1..MaxEditors : editors[e] = "deleted"

====
